---- MODULE Spec2Model ----
(***************************************************************************)
(* Model of youtube-chat-monitor: the merge engine (merge_chats) and the   *)
(* capture supervisor (main) of yt_chat_backup.py.                         *)
(*                                                                         *)
(* Timestamps are integers in hundredths of a second (12.34 s is 1234);    *)
(* rounded timestamps are integers in tenths of a second (12.3 s is 123).  *)
(* A line of a JSONL file is a record: its kind says how far the reader    *)
(* gets with it (decoding, strip, json.loads), and for a JSON object the   *)
(* fields say what the object holds.                                       *)
(***************************************************************************)
EXTENDS Integers, Sequences, FiniteSets, TLC

\* ------------------------------------------------------------------------
\* Bounds
\* ------------------------------------------------------------------------

\* Lines over all input files of one merge.
MaxTotalLines == 3

\* Progress lines the producers of one run print, all together.
MaxEmit == 2

\* Records the producers of one run append to their capture files, all together.
MaxFlush == 2

\* Stop requests (Ctrl+C) delivered to the supervisor in one run.
MaxStops == 2

\* Continuation entries and actions in a response document of the parser runs.
MaxEntries == 2

MaxActions == 1

\* Poll requests of one scraper session without a duration budget.
MaxPolls == 3

\* The scraper's delays, in tenths of a second: the pacing in replay and in
\* live mode, the delay after a failed request, the timeout of a request.
ReplayPace == 3

LivePace == 30

RetryDelay == 50

PostTimeout == 300

\* ------------------------------------------------------------------------
\* JSON values found on a line
\* ------------------------------------------------------------------------

\* "author" of an object: absent, an object with a "name", or not an object.
AuthorAbsent == [tag |-> "absent", name |-> ""]

AuthorNamed(n) == [tag |-> "name", name |-> n]

AuthorNonDict == [tag |-> "nondict", name |-> ""]

\* "timestamp" of an object: absent, a finite number, NaN (json.loads
\* accepts the NaN literal), or a value round() rejects (string, null).
TsAbsent == [tag |-> "absent", v |-> 0]

TsNum(v) == [tag |-> "num", v |-> v]

TsNaN == [tag |-> "nan", v |-> 0]

TsNonNumber == [tag |-> "nonnumber", v |-> 0]

\* A line holding a JSON object.
Obj(a, t, m) == [kind |-> "object", author |-> a, timestamp |-> t, message |-> m]

\* A line that is not a JSON object, by what happens to it in the reader.
OtherLine(k) == [kind |-> k, author |-> AuthorAbsent, timestamp |-> TsAbsent, message |-> ""]

\* Whitespace only: removed by strip().
BlankLine == OtherLine("blank")

\* Decodable text that json.loads rejects (a line cut in ASCII text).
CorruptLine == OtherLine("corrupt")

\* Valid JSON that is not an object (a number, a list): no .get attribute.
NonObjectLine == OtherLine("nonobject")

\* Bytes that are not valid UTF-8 (a line cut inside a multi-byte character).
UndecodableLine == OtherLine("undecodable")

\* The lines the input files are drawn from.
Lines ==
    { Obj(AuthorNamed("Alice"), TsNum(1234), "a1"),
      Obj(AuthorNamed("Alice"), TsNum(1230), "a2"),
      Obj(AuthorNamed("Bob"), TsNum(1232), "b"),
      Obj(AuthorNamed("Alice"), TsNaN, "n"),
      Obj(AuthorAbsent, TsAbsent, ""),
      Obj(AuthorNonDict, TsNum(1500), "x"),
      Obj(AuthorNamed("Bob"), TsNonNumber, "s"),
      BlankLine, CorruptLine, NonObjectLine, UndecodableLine }

\* The input paths of a stand-alone merge.
Paths == {"A", "B"}

\* A file on disk: absent, or its lines top to bottom.
NoFile == [exists |-> FALSE, lines |-> << >>]

File(ls) == [exists |-> TRUE, lines |-> ls]

\* ------------------------------------------------------------------------
\* State
\* ------------------------------------------------------------------------

\* The producers, in the order main starts them and iterates the dict.
ProducerOrder == <<"innertube", "chat_downloader", "yt-dlp">>

Producers == {ProducerOrder[i] : i \in 1..Len(ProducerOrder)}

\* The capture file main records for a producer.
PathOf(name) ==
    CASE name = "innertube" -> "chat_innertube.json"
      [] name = "chat_downloader" -> "chat_chatdl.json"
      [] name = "yt-dlp" -> "chat_ytdlp.json"

CapturePaths == {PathOf(n) : n \in Producers}

VARIABLES
    disk,         \* the capture files: path -> NoFile or File(lines)
    outfile,      \* the file at the merge output path
    cur,          \* the last call of merge_chats: its arguments and outcome
    prev,         \* the call before it
    methods_list, \* main: the producers selected on the command line
    pc,           \* main: the statement it is at
    cursor,       \* main: position in ProducerOrder of the current loop
    processes,    \* main: the names in the processes dict (the active set)
    files,        \* main: the recorded capture paths
    pstate,       \* each producer process: unstarted, failed, running, exited, killed
    pipe,         \* each producer: lines written to stdout and not yet read
    logged,       \* combined log: lines printed with each producer's tag
    finished,     \* combined log: producers whose exit status was printed
    sigsent,      \* producers on which send_signal(SIGINT) was called
    stopping,     \* combined log: "Stopping all captures..." was printed
    stopped,      \* combined log: producers reported "Stopped"
    stops,        \* stop requests delivered so far
    cancelError,  \* an unexpected exception was raised in the cancellation path
    doc,          \* scraper: the response document handed to the parser
    parsed,       \* scraper: what extract_messages_and_continuation returned
    s_pc,         \* scraper main: the statement it is at
    continuation, \* scraper main: the continuation token
    cont_type,    \* scraper main: the type key of the continuation
    is_replay,    \* scraper main: the mode flag
    seen_timestamps, \* scraper main: the keys seen in this session
    all_messages, \* scraper main: the messages kept in memory
    unique_new,   \* scraper main: the novel messages of the current page
    output,       \* scraper main: the session's output file
    page,         \* scraper main: the page counter
    elapsed,      \* scraper main: time.time() - start_time, in tenths of a second
    duration,     \* scraper main: args.duration, in tenths of a second
    sent,         \* the continuation tokens of the poll requests sent so far
    failed,       \* the last poll request failed and none was answered since
    interrupted,  \* a KeyboardInterrupt was raised in the scraper's main
    endpoint,     \* scraper main: the polling endpoint
    posted        \* the endpoints of the poll requests sent so far

scraperVars == <<doc, parsed, s_pc, continuation, cont_type, is_replay,
                 seen_timestamps, all_messages, unique_new, output, page, elapsed,
                 duration, sent, failed, interrupted, endpoint, posted>>

vars == <<disk, outfile, cur, prev, methods_list, pc, cursor, processes, files,
          pstate, pipe, logged, finished, sigsent, stopping, stopped, stops,
          cancelError, scraperVars>>

supervisorVars == <<methods_list, pc, cursor, processes, files, pstate, pipe,
                    logged, finished, sigsent, stopping, stopped, stops, cancelError>>

\* ------------------------------------------------------------------------
\* merge_chats
\* ------------------------------------------------------------------------

\* round(ts, 1) on a finite number: hundredths to tenths.  Python rounds the
\* double correctly: x.x5 is a tie only when the double is exact (x.25, x.75),
\* and then goes to the even tenth.  The other x.x5 follow the binary
\* expansion of their double; no timestamp of the model is one of them.
Round1(v) ==
    LET q == v \div 10
        r == v % 10
    IN  IF r < 5 THEN q
        ELSE IF r > 5 THEN q + 1
        ELSE CASE v % 25 = 0 -> (IF q % 2 = 0 THEN q ELSE q + 1)

\* msg.get('author', {}).get('name', '')
AuthorOf(msg) == IF msg.author.tag = "name" THEN msg.author.name ELSE ""

\* msg.get('timestamp', 0)
TimestampOf(msg) == IF msg.timestamp.tag = "absent" THEN TsNum(0) ELSE msg.timestamp

\* round(ts, 1): NaN stays NaN.
RoundTs(t) == IF t.tag = "num" THEN TsNum(Round1(t.v)) ELSE t

\* key = (round(ts, 1), author)
KeyOf(msg) == [ts |-> RoundTs(TimestampOf(msg)), author |-> AuthorOf(msg)]

\* Python == on two keys: a NaN compares unequal to everything, itself included.
KeyEq(k1, k2) ==
    /\ k1.ts.tag = "num"
    /\ k2.ts.tag = "num"
    /\ k1.ts.v = k2.ts.v
    /\ k1.author = k2.author

\* The try body raises before the key is used (the except drops the line).
LineRaises(line) ==
    \/ line.kind = "corrupt"
    \/ line.kind = "nonobject"
    \/ line.author.tag = "nondict"
    \/ line.timestamp.tag = "nonnumber"

\* Mutant of IsNovel: the key is compared by author name only.
IsNovelByAuthor(key, seen) == ~ \E k \in seen : k.author = key.author

\* Mutant of IsNovel: the membership test is lost.
IsNovelAlways(key, seen) == TRUE

\* key not in seen
IsNovel(key, seen) == ~ \E k \in seen : KeyEq(k, key)

\* Mutant of ProcessLine: a seen key replaces the kept record (last wins).
ProcessLineLastWins(st, line) ==
    IF line.kind = "blank" \/ LineRaises(line) THEN st
    ELSE LET key == KeyOf(line)
         IN  IF IsNovel(key, st.seen)
             THEN [st EXCEPT !.seen = st.seen \cup {key}, !.all_msgs = Append(st.all_msgs, line)]
             ELSE [st EXCEPT !.all_msgs = [i \in 1..Len(st.all_msgs) |->
                                              IF KeyEq(KeyOf(st.all_msgs[i]), key)
                                              THEN line ELSE st.all_msgs[i]]]

\* One iteration of "for line in fh" on the accumulators (seen, all_msgs).
ProcessLine(st, line) ==
    IF line.kind = "blank" \/ LineRaises(line) THEN st
    ELSE LET key == KeyOf(line)
         IN  IF IsNovel(key, st.seen)
             THEN [st EXCEPT !.seen = st.seen \cup {key}, !.all_msgs = Append(st.all_msgs, line)]
             ELSE st

RECURSIVE ReadLines(_, _, _)
\* for line in fh, from line i on.
ReadLines(st, ls, i) ==
    IF i > Len(ls) THEN st ELSE ReadLines(ProcessLine(st, ls[i]), ls, i + 1)

\* Iterating the text file decodes it: bytes that are not UTF-8 raise
\* UnicodeDecodeError outside the try.
FileRaises(file) == \E i \in 1..Len(file.lines) : file.lines[i].kind = "undecodable"

\* Mutant of ReadFile: a missing path is opened all the same.
ReadFileNoExistsCheck(st, file) ==
    IF st.raised THEN st
    ELSE IF ~ file.exists \/ FileRaises(file) THEN [st EXCEPT !.raised = TRUE]
    ELSE ReadLines(st, file.lines, 1)

\* One iteration of "for f in files".
ReadFile(st, file) ==
    IF st.raised \/ ~ file.exists THEN st
    ELSE IF FileRaises(file) THEN [st EXCEPT !.raised = TRUE]
    ELSE ReadLines(st, file.lines, 1)

RECURSIVE ReadFiles(_, _, _, _)
\* for f in files, from position i on.
ReadFiles(st, paths, fsys, i) ==
    IF i > Len(paths) THEN st
    ELSE ReadFiles(ReadFile(st, fsys[paths[i]]), paths, fsys, i + 1)

\* Python < on two sort keys: false as soon as a NaN is involved.
Lt(a, b) == a.tag = "num" /\ b.tag = "num" /\ a.v < b.v

\* The sort key of list.sort: x.get('timestamp', 0).
SortKey(msg) == TimestampOf(msg)

RECURSIVE CountRun(_, _)
\* count_run of list.sort on an ascending start: the length of the longest
\* prefix s[1..n] with no s[i] < s[i-1]; n is the length found so far.
CountRun(s, n) ==
    IF n < Len(s) /\ ~ Lt(SortKey(s[n + 1]), SortKey(s[n])) THEN CountRun(s, n + 1) ELSE n

RECURSIVE CountRunDesc(_, _)
\* count_run on a descending start: the longest strictly descending prefix.
CountRunDesc(s, n) ==
    IF n < Len(s) /\ Lt(SortKey(s[n + 1]), SortKey(s[n])) THEN CountRunDesc(s, n + 1) ELSE n

\* reverse_slice on the prefix of length n.
ReversePrefix(s, n) == [i \in 1..Len(s) |-> IF i <= n THEN s[n + 1 - i] ELSE s[i]]

RECURSIVE BinarySearch(_, _, _, _)
\* The bisection of binarysort: the insertion point of pivot in s[l..r-1]
\* (0-based l, r as in the C code, s 1-based).
BinarySearch(s, pivot, l, r) ==
    IF l >= r THEN l
    ELSE LET p == l + ((r - l) \div 2)
         IN  IF Lt(SortKey(pivot), SortKey(s[p + 1]))
             THEN BinarySearch(s, pivot, l, p)
             ELSE BinarySearch(s, pivot, p + 1, r)

\* s with the element at 0-based position start moved to 0-based position l.
InsertAt(s, start, l) ==
    [i \in 1..Len(s) |->
        IF i - 1 < l \/ i - 1 > start THEN s[i]
        ELSE IF i - 1 = l THEN s[start + 1]
        ELSE s[i - 1]]

RECURSIVE BinarySort(_, _)
\* binarysort: s[1..start] is sorted, insert the elements after it one by one.
BinarySort(s, start) ==
    IF start >= Len(s) THEN s
    ELSE BinarySort(InsertAt(s, start, BinarySearch(s, s[start + 1], 0, start)), start + 1)

\* Mutant of ListSort: the list is written in encounter order.
ListSortNone(s) == s

\* all_msgs.sort(key=...) for fewer than 64 elements: the natural run at the
\* head (reversed when strictly descending), then binary insertion.
ListSort(s) ==
    IF Len(s) < 2 THEN s
    ELSE IF Lt(SortKey(s[2]), SortKey(s[1]))
         THEN LET n == CountRunDesc(s, 2) IN BinarySort(ReversePrefix(s, n), n)
         ELSE BinarySort(s, CountRun(s, 2))

\* Mutant of WriteOutput: the output is opened in append mode.
WriteOutputAppend(old, msgs) == File(old.lines \o msgs)

\* open(output_path, 'w') and one line per message: the old content is gone.
WriteOutput(old, msgs) == File(msgs)

\* seen = set(); all_msgs = []
FreshStore == [seen |-> {}, all_msgs |-> << >>, raised |-> FALSE]

\* merge_chats(files, output_path) on the disk: whether it raised, the
\* output file it leaves, and the count it returns.
MergeChats(paths, fsys, old) ==
    LET st == ReadFiles(FreshStore, paths, fsys, 1)
        sorted == ListSort(st.all_msgs)
    IN  IF st.raised
        THEN [raised |-> TRUE, output |-> old, total |-> 0]
        ELSE [raised |-> FALSE, output |-> WriteOutput(old, sorted), total |-> Len(sorted)]

\* ------------------------------------------------------------------------
\* The scraper: response documents and extract_messages_and_continuation
\* ------------------------------------------------------------------------

\* A key that is missing from a dict (or holds an empty dict, list or string,
\* which .get(...) with its default and the truth tests treat alike).
Absent == [tag |-> "absent"]

\* A value of the wrong JSON type where a dict or list is read (null, a
\* string, a number).
WrongType == [tag |-> "wrongtype"]

\* Python's None, as the value of next_cont and cont_type.
None == "None"

\* The type keys of continuation entries.
ContKeys == {"liveChatReplayContinuationData", "playerSeekContinuationData",
             "timedContinuationData", "invalidationContinuationData"}

\* The continuation tokens; "" is a missing or empty 'continuation' field.
Tokens == {"t1", "t2"}

\* The value under a type key: a dict with a 'continuation' field.
ContData(tok) == [tag |-> "dict", continuation |-> tok]

\* One key of a continuation entry with its value.
KV(key, val) == [key |-> key, val |-> val]

\* A continuation entry: a dict, as its items in order.
ContEntry(items) == [tag |-> "dict", items |-> items]

\* A renderer's authorName and timestampUsec fields.
SimpleText(name) == [tag |-> "dict", simpleText |-> name]

UsecString(n) == [tag |-> "digits", usec |-> n]

\* A run of a message: text, or an emoji with its first shortcut ("" if it
\* has none) and its emojiId.
TextRun(t) == [kind |-> "text", text |-> t]

EmojiRun(shortcut, id) == [kind |-> "emoji", shortcut |-> shortcut, emojiId |-> id]

\* liveChatTextMessageRenderer / liveChatPaidMessageRenderer.
Renderer(author, ts, runs) == [tag |-> "dict", authorName |-> author,
                               timestampUsec |-> ts, runs |-> runs]

\* The item of an addChatItemAction: its text and paid renderers.
Item(text, paid) == [tag |-> "dict", text |-> text, paid |-> paid]

\* A plain action (addChatItemAction with an item, or some other action:
\* item Absent).
PlainAction(item) == [tag |-> "dict", replay |-> FALSE, offset |-> Absent,
                      subs |-> <<item>>]

\* A replayChatItemAction: videoOffsetTimeMsec and the items of its actions.
ReplayAction(offset, items) == [tag |-> "dict", replay |-> TRUE, offset |-> offset,
                                subs |-> items]

\* An action that is not a dict.
WrongTypeAction == [tag |-> "wrongtype", replay |-> FALSE, offset |-> Absent,
                    subs |-> << >>]

MsecString(n) == [tag |-> "digits", msec |-> n]

\* A JSON list.
List(xs) == [tag |-> "list", xs |-> xs]

\* liveChatContinuation / liveChatRenderer: a non-empty dict with its
\* 'continuations' and 'actions' (Absent, a list, or a value of another type).
Chat(continuations, actions) == [tag |-> "dict", continuations |-> continuations,
                                 actions |-> actions]

\* A response document: what is at continuationContents.liveChatContinuation
\* and at contents.liveChatRenderer.
Doc(lcc, lcr) == [continuationContents |-> lcc, contents |-> lcr]

\* No document.
NoDoc == [continuationContents |-> Absent, contents |-> Absent, none |-> TRUE]

\* 'replay' in cont_type.lower(), on the type keys of the model.
ContainsReplay(key) == key \in {"liveChatReplayContinuationData"}

\* for key in c: tok = c[key].get('continuation', ''); if tok: ...; break
\* The first key of the entry with a non-empty token; raises on a value
\* that is not a dict met before it.
RECURSIVE ScanKeys(_, _)
ScanKeys(items, i) ==
    IF i > Len(items) THEN [raised |-> FALSE, found |-> FALSE, tok |-> "", key |-> ""]
    ELSE IF items[i].val.tag # "dict"
    THEN [raised |-> TRUE, found |-> FALSE, tok |-> "", key |-> ""]
    ELSE IF items[i].val.continuation # ""
    THEN [raised |-> FALSE, found |-> TRUE, tok |-> items[i].val.continuation,
          key |-> items[i].key]
    ELSE ScanKeys(items, i + 1)

\* for c in continuations: the break leaves the loop over the keys only, so
\* every entry is scanned and each entry with a token overwrites next_cont
\* and cont_type.
RECURSIVE ScanContinuations(_, _, _)
ScanContinuations(continuations, i, acc) ==
    IF acc.raised \/ i > Len(continuations) THEN acc
    ELSE IF continuations[i].tag # "dict"
    THEN [acc EXCEPT !.raised = TRUE]
    ELSE LET r == ScanKeys(continuations[i].items, 1)
         IN  ScanContinuations(continuations, i + 1,
                 IF r.raised THEN [acc EXCEPT !.raised = TRUE]
                 ELSE IF r.found THEN [acc EXCEPT !.next_cont = r.tok, !.cont_type = r.key]
                 ELSE acc)

\* ''.join(...) over the runs: the text of a text run, of an emoji its first
\* shortcut or else its emojiId.
RECURSIVE JoinRuns(_, _)
JoinRuns(runs, i) ==
    IF i > Len(runs) THEN ""
    ELSE (IF runs[i].kind = "text" THEN runs[i].text
          ELSE IF runs[i].shortcut # "" THEN runs[i].shortcut
          ELSE runs[i].emojiId) \o JoinRuns(runs, i + 1)

\* The renderer read raises: authorName is not a dict, or timestampUsec is
\* not a string of digits.
RendererRaises(renderer) ==
    \/ renderer.authorName.tag = "wrongtype"
    \/ renderer.timestampUsec.tag = "wrongtype"

\* The message dict built from a renderer: the author's name ('Unknown' by
\* default), int(timestampUsec) / 1_000_000 (0 by default; the float is kept
\* as its count of microseconds, which int / 1e6 maps one to one below 2^53),
\* the joined text, superchat for a paid renderer, offset_ms if any.
MessageOf(renderer, paid, offset) ==
    [author |-> IF renderer.authorName.tag = "dict"
                THEN renderer.authorName.simpleText ELSE "Unknown",
     timestamp |-> IF renderer.timestampUsec.tag = "digits"
                   THEN renderer.timestampUsec.usec ELSE 0,
     message |-> JoinRuns(renderer.runs, 1),
     superchat |-> paid,
     offset_ms |-> offset]

\* for key in [text renderer, paid renderer]: renderer = item.get(key);
\* if not renderer: continue; ...; messages.append(msg)
\* offset: Absent, or the integer; offsetBad: int(offset) raises.
ItemMessages(item, offset, offsetBad, acc) ==
    LET one(a, renderer, paid) ==
            IF a.raised \/ renderer.tag = "absent" THEN a
            ELSE IF renderer.tag # "dict" \/ RendererRaises(renderer) \/ offsetBad
            THEN [a EXCEPT !.raised = TRUE]
            ELSE [a EXCEPT !.messages = Append(@, MessageOf(renderer, paid, offset))]
    IN  IF item.tag = "absent" THEN acc
        ELSE IF item.tag # "dict" THEN [acc EXCEPT !.raised = TRUE]
        ELSE one(one(acc, item.text, FALSE), item.paid, TRUE)

\* for sub in sub_actions
RECURSIVE SubMessages(_, _, _, _, _)
SubMessages(subs, i, offset, offsetBad, acc) ==
    IF acc.raised \/ i > Len(subs) THEN acc
    ELSE SubMessages(subs, i + 1, offset, offsetBad,
                     ItemMessages(subs[i], offset, offsetBad, acc))

\* for action in actions
RECURSIVE ActionMessages(_, _, _)
ActionMessages(actions, i, acc) ==
    IF acc.raised \/ i > Len(actions) THEN acc
    ELSE IF actions[i].tag # "dict" THEN [acc EXCEPT !.raised = TRUE]
    ELSE LET o == actions[i].offset
             offset == IF o.tag = "digits" THEN [tag |-> "int", ms |-> o.msec] ELSE Absent
         IN  ActionMessages(actions, i + 1,
                 SubMessages(actions[i].subs, 1, offset, o.tag = "wrongtype", acc))

\* .get(key, []): the list under the key, [] if the key is missing.
ItemsOf(v) == IF v.tag = "list" THEN v.xs ELSE << >>

\* The parser has not returned.
NotParsed == [raised |-> FALSE, messages |-> << >>, next_cont |-> None,
              cont_type |-> None, returned |-> FALSE]

\* extract_messages_and_continuation(data): the chat is taken from
\* continuationContents.liveChatContinuation if that is non-empty, else from
\* contents.liveChatRenderer; then the continuations, then the actions.
Extract(data) ==
    LET start == [raised |-> FALSE, messages |-> << >>, next_cont |-> None,
                  cont_type |-> None, returned |-> TRUE]
        lcc == data.continuationContents
        chat == IF lcc.tag # "absent" THEN lcc ELSE data.contents
    IN  IF chat.tag = "wrongtype" THEN [start EXCEPT !.raised = TRUE, !.returned = FALSE]
        ELSE IF chat.tag = "absent" THEN start
        ELSE IF chat.continuations.tag = "wrongtype" \/ chat.actions.tag = "wrongtype"
        THEN [start EXCEPT !.raised = TRUE, !.returned = FALSE]
        ELSE LET c == ScanContinuations(ItemsOf(chat.continuations), 1, start)
                 r == ActionMessages(ItemsOf(chat.actions), 1, c)
             IN  IF r.raised THEN [start EXCEPT !.raised = TRUE, !.returned = FALSE]
                 ELSE r

\* is_replay = cont_type and 'replay' in cont_type.lower(), as its truth value.
IsReplay(ct) == ct # None /\ ContainsReplay(ct)

\* if is_replay: endpoint = ...get_live_chat_replay, else ...get_live_chat
EndpointOf(replay) ==
    IF replay THEN "live_chat/get_live_chat_replay" ELSE "live_chat/get_live_chat"

\* The scraper's main is not running.
SessionIdle ==
    /\ s_pc = "idle"
    /\ continuation = None
    /\ cont_type = None
    /\ is_replay = FALSE
    /\ seen_timestamps = {}
    /\ all_messages = << >>
    /\ unique_new = << >>
    /\ output = NoFile
    /\ page = 0
    /\ elapsed = 0
    /\ duration = 0
    /\ sent = << >>
    /\ failed = FALSE
    /\ interrupted = FALSE
    /\ endpoint = ""
    /\ posted = << >>

\* Neither the parser nor the scraper's main is running.
ScraperIdle ==
    /\ doc = NoDoc
    /\ parsed = NotParsed
    /\ SessionIdle

\* ------------------------------------------------------------------------
\* The merge engine alone: files with any contents, merged in any order,
\* any number of times
\* ------------------------------------------------------------------------

\* No call of merge_chats yet.
NoCall == [called |-> FALSE, files |-> << >>, raised |-> FALSE, output |-> NoFile, total |-> 0]

\* The orderings of the input paths.
Orderings == { <<"A", "B">>, <<"B", "A">> }

\* The sequences over Lines of length n.
LinesOfLen(n) == [1..n -> Lines]

\* Both paths may be missing, empty, or hold lines of any kind.
InitMerge ==
    /\ \E na \in 0..MaxTotalLines : \E nb \in 0..(MaxTotalLines - na) :
         \E ea \in BOOLEAN : \E eb \in BOOLEAN :
         \E la \in LinesOfLen(na) : \E lb \in LinesOfLen(nb) :
            /\ (~ ea) => na = 0
            /\ (~ eb) => nb = 0
            /\ disk = [p \in Paths |-> IF p = "A"
                                       THEN (IF ea THEN File(la) ELSE NoFile)
                                       ELSE (IF eb THEN File(lb) ELSE NoFile)]
    /\ outfile = NoFile
    /\ cur = NoCall
    /\ prev = NoCall
    /\ methods_list = {}
    /\ pc = "standalone"
    /\ cursor = 0
    /\ processes = {}
    /\ files = << >>
    /\ pstate = [n \in Producers |-> "unstarted"]
    /\ pipe = [n \in Producers |-> 0]
    /\ logged = [n \in Producers |-> 0]
    /\ finished = {}
    /\ sigsent = {}
    /\ stopping = FALSE
    /\ stopped = {}
    /\ stops = 0
    /\ cancelError = FALSE
    /\ ScraperIdle

\* merge_chats(files, output_path) with the paths in some order.
MergeCall ==
    /\ pc = "standalone"
    /\ \E order \in Orderings :
        LET r == MergeChats(order, disk, outfile)
        IN  /\ cur' = [called |-> TRUE, files |-> order, raised |-> r.raised,
                       output |-> r.output, total |-> r.total]
            /\ prev' = cur
            /\ outfile' = r.output
    /\ UNCHANGED <<disk, supervisorVars, scraperVars>>

NextMerge == MergeCall

SpecMerge == InitMerge /\ [][NextMerge]_vars

\* ------------------------------------------------------------------------
\* The capture supervisor (main) and its producers
\* ------------------------------------------------------------------------

\* The k-th record a producer appends to its capture file.  The scraper and
\* chat_downloader capture the same chat, stamped a few hundredths apart.
RecordOf(name, k) ==
    IF name = "innertube"
    THEN Obj(AuthorNamed("Alice"), TsNum(1234 + 100 * (k - 1)), "a1")
    ELSE Obj(AuthorNamed("Alice"), TsNum(1230 + 100 * (k - 1)), "a2")

\* The first position after i whose producer is in the set, 0 if none.
NextActive(i, procs) ==
    LET later == {j \in (i + 1)..Len(ProducerOrder) : ProducerOrder[j] \in procs}
    IN  IF later = {} THEN 0 ELSE CHOOSE j \in later : \A k \in later : j <= k

\* main has ended: normally, by sys.exit(1), or by an uncaught exception.
Terminated == pc \in {"done", "exit1", "crashed"}

\* The supervisor is inside the try block of the monitoring loop.
Monitoring == pc \in {"mon_read", "mon_poll", "mon_sleep"}

\* The supervisor is inside the except KeyboardInterrupt block.
Cancelling == pc \in {"cancel_signal", "cancel_wait", "cancel_print"}

Init ==
    /\ methods_list \in SUBSET Producers
    /\ pc = "start"
    /\ cursor = 1
    /\ processes = {}
    /\ files = << >>
    /\ pstate = [n \in Producers |-> "unstarted"]
    /\ pipe = [n \in Producers |-> 0]
    /\ logged = [n \in Producers |-> 0]
    /\ finished = {}
    /\ sigsent = {}
    /\ stopping = FALSE
    /\ stopped = {}
    /\ stops = 0
    /\ disk = [q \in CapturePaths |-> NoFile]
    /\ outfile = NoFile
    /\ cur = NoCall
    /\ prev = NoCall
    /\ cancelError = FALSE
    /\ ScraperIdle

\* After one of the three "if ... in methods_list" blocks: the next block,
\* then the "if not processes" test.
AfterStart == IF cursor < Len(ProducerOrder)
              THEN /\ pc' = "start"
                   /\ cursor' = cursor + 1
              ELSE /\ pc' = "check"
                   /\ cursor' = 0

\* A method that was not selected: its block is skipped.
StartSkip ==
    /\ pc = "start"
    /\ ProducerOrder[cursor] \notin methods_list
    /\ AfterStart
    /\ UNCHANGED <<disk, outfile, cur, prev, methods_list, processes, files, pstate,
                   pipe, logged, finished, sigsent, stopping, stopped, stops>>
    /\ UNCHANGED <<cancelError, scraperVars>>

\* A selected method: its path is recorded and Popen succeeds.
StartOk ==
    /\ pc = "start"
    /\ ProducerOrder[cursor] \in methods_list
    /\ files' = Append(files, PathOf(ProducerOrder[cursor]))
    /\ processes' = processes \cup {ProducerOrder[cursor]}
    /\ pstate' = [pstate EXCEPT ![ProducerOrder[cursor]] = "running"]
    /\ AfterStart
    /\ UNCHANGED <<disk, outfile, cur, prev, methods_list, pipe, logged, finished,
                   sigsent, stopping, stopped, stops>>
    /\ UNCHANGED <<cancelError, scraperVars>>

\* A selected method: its path is recorded, Popen raises, the except logs it.
StartFail ==
    /\ pc = "start"
    /\ ProducerOrder[cursor] \in methods_list
    /\ files' = Append(files, PathOf(ProducerOrder[cursor]))
    /\ pstate' = [pstate EXCEPT ![ProducerOrder[cursor]] = "failed"]
    /\ AfterStart
    /\ UNCHANGED <<disk, outfile, cur, prev, methods_list, processes, pipe, logged,
                   finished, sigsent, stopping, stopped, stops>>
    /\ UNCHANGED <<cancelError, scraperVars>>

\* if not processes: sys.exit(1); otherwise the first pass of the monitoring loop.
Check ==
    /\ pc = "check"
    /\ IF processes = {}
       THEN /\ pc' = "exit1"
            /\ cursor' = 0
       ELSE /\ pc' = "mon_read"
            /\ cursor' = NextActive(0, processes)
    /\ UNCHANGED <<disk, outfile, cur, prev, methods_list, processes, files, pstate,
                   pipe, logged, finished, sigsent, stopping, stopped, stops>>
    /\ UNCHANGED <<cancelError, scraperVars>>

\* line = p.stdout.readline(): blocks until the producer has written a line or
\* its end of the pipe is closed; a line is printed with the producer's tag.
MonitorRead ==
    /\ pc = "mon_read"
    /\ LET name == ProducerOrder[cursor]
       IN  /\ pipe[name] > 0 \/ pstate[name] # "running"
           /\ IF pipe[name] > 0
              THEN /\ pipe' = [pipe EXCEPT ![name] = @ - 1]
                   /\ logged' = [logged EXCEPT ![name] = @ + 1]
              ELSE UNCHANGED <<pipe, logged>>
    /\ pc' = "mon_poll"
    /\ UNCHANGED <<disk, outfile, cur, prev, methods_list, cursor, processes, files,
                   pstate, finished, sigsent, stopping, stopped, stops>>
    /\ UNCHANGED <<cancelError, scraperVars>>

\* Mutant of MonitorPoll: the exit of one producer ends the monitoring loop.
MonitorPollEndsLoop ==
    /\ pc = "mon_poll"
    /\ LET name == ProducerOrder[cursor]
           exited == pstate[name] # "running"
           procs == IF exited THEN processes \ {name} ELSE processes
           next == NextActive(cursor, procs)
       IN  /\ processes' = procs
           /\ finished' = IF exited THEN finished \cup {name} ELSE finished
           /\ IF exited
              THEN /\ pc' = "merge"
                   /\ cursor' = 0
              ELSE IF next # 0
              THEN /\ pc' = "mon_read"
                   /\ cursor' = next
              ELSE /\ pc' = "mon_sleep"
                   /\ cursor' = 0
    /\ UNCHANGED <<disk, outfile, cur, prev, methods_list, files, pstate, pipe,
                   logged, sigsent, stopping, stopped, stops>>
    /\ UNCHANGED <<cancelError, scraperVars>>

\* if p.poll() is not None: log the exit code and del processes[name]; then
\* the next producer of this pass (the pass iterates a copy of the dict, and
\* only the current entry is ever deleted), or the sleep that ends the pass.
MonitorPoll ==
    /\ pc = "mon_poll"
    /\ LET name == ProducerOrder[cursor]
           exited == pstate[name] # "running"
           procs == IF exited THEN processes \ {name} ELSE processes
           next == NextActive(cursor, procs)
       IN  /\ processes' = procs
           /\ finished' = IF exited THEN finished \cup {name} ELSE finished
           /\ IF next # 0
              THEN /\ pc' = "mon_read"
                   /\ cursor' = next
              ELSE /\ pc' = "mon_sleep"
                   /\ cursor' = 0
    /\ UNCHANGED <<disk, outfile, cur, prev, methods_list, files, pstate, pipe,
                   logged, sigsent, stopping, stopped, stops>>
    /\ UNCHANGED <<cancelError, scraperVars>>

\* time.sleep(0.1), then "while processes": another pass, or on to the merge.
MonitorSleep ==
    /\ pc = "mon_sleep"
    /\ IF processes # {}
       THEN /\ pc' = "mon_read"
            /\ cursor' = NextActive(0, processes)
       ELSE /\ pc' = "merge"
            /\ cursor' = 0
    /\ UNCHANGED <<disk, outfile, cur, prev, methods_list, processes, files, pstate,
                   pipe, logged, finished, sigsent, stopping, stopped, stops>>
    /\ UNCHANGED <<cancelError, scraperVars>>

\* Mutant of OnTimeout: the producer is left alone after the grace period.
OnTimeoutNoKill(s) == s

\* except: p.kill() after wait(timeout=5) raised: the process is killed.
OnTimeout(s) == "killed"

\* A stop request: KeyboardInterrupt is raised in main at the statement it is
\* at.  Inside the try it enters the handler; at wait() inside the handler the
\* bare except takes it for a timeout; anywhere else it is not caught.
StopRequest ==
    /\ ~ Terminated
    /\ stops < MaxStops
    /\ stops' = stops + 1
    /\ IF Monitoring
       THEN /\ stopping' = TRUE
            /\ pc' = IF processes # {} THEN "cancel_signal" ELSE "merge"
            /\ cursor' = NextActive(0, processes)
            /\ UNCHANGED pstate
       ELSE IF pc = "cancel_wait"
       THEN /\ pc' = "cancel_print"
            /\ pstate' = [pstate EXCEPT ![ProducerOrder[cursor]] =
                             IF @ = "running" THEN OnTimeout(@) ELSE @]
            /\ UNCHANGED <<cursor, stopping>>
       ELSE /\ pc' = "crashed"
            /\ UNCHANGED <<cursor, pstate, stopping>>
    /\ UNCHANGED <<disk, outfile, cur, prev, methods_list, processes, files, pipe,
                   logged, finished, sigsent, stopped>>
    /\ UNCHANGED <<cancelError, scraperVars>>

\* p.send_signal(signal.SIGINT): a no-op on a producer that has exited.
CancelSignal ==
    /\ pc = "cancel_signal"
    /\ sigsent' = sigsent \cup {ProducerOrder[cursor]}
    /\ pc' = "cancel_wait"
    /\ UNCHANGED <<disk, outfile, cur, prev, methods_list, cursor, processes, files,
                   pstate, pipe, logged, finished, stopping, stopped, stops>>
    /\ UNCHANGED <<cancelError, scraperVars>>

\* p.wait(timeout=5) returns: the producer has exited.
CancelWaitReturn ==
    /\ pc = "cancel_wait"
    /\ pstate[ProducerOrder[cursor]] # "running"
    /\ pc' = "cancel_print"
    /\ UNCHANGED <<disk, outfile, cur, prev, methods_list, cursor, processes, files,
                   pstate, pipe, logged, finished, sigsent, stopping, stopped, stops>>
    /\ UNCHANGED <<cancelError, scraperVars>>

\* p.wait(timeout=5) raises TimeoutExpired: the producer is still alive.
CancelWaitTimeout ==
    /\ pc = "cancel_wait"
    /\ pstate[ProducerOrder[cursor]] = "running"
    /\ pstate' = [pstate EXCEPT ![ProducerOrder[cursor]] = OnTimeout(@)]
    /\ pc' = "cancel_print"
    /\ UNCHANGED <<disk, outfile, cur, prev, methods_list, cursor, processes, files,
                   pipe, logged, finished, sigsent, stopping, stopped, stops>>
    /\ UNCHANGED <<cancelError, scraperVars>>

\* p.send_signal raises an unexpected exception (an OSError from os.kill):
\* nothing in the handler catches it.
CancelSignalRaises ==
    /\ pc = "cancel_signal"
    /\ pstate[ProducerOrder[cursor]] = "running"
    /\ cancelError' = TRUE
    /\ pc' = "crashed"
    /\ UNCHANGED <<disk, outfile, cur, prev, methods_list, cursor, processes, files,
                   pstate, pipe, logged, finished, sigsent, stopping, stopped, stops,
                   scraperVars>>

\* p.wait raises something other than TimeoutExpired: the bare except takes
\* it for a timeout and kills the producer.
CancelWaitRaises ==
    /\ pc = "cancel_wait"
    /\ cancelError' = TRUE
    /\ pstate' = [pstate EXCEPT ![ProducerOrder[cursor]] =
                     IF @ = "running" THEN OnTimeout(@) ELSE @]
    /\ pc' = "cancel_print"
    /\ UNCHANGED <<disk, outfile, cur, prev, methods_list, cursor, processes, files,
                   pipe, logged, finished, sigsent, stopping, stopped, stops,
                   scraperVars>>

\* p.kill() in the except clause raises: nothing catches it.
CancelKillRaises ==
    /\ pc = "cancel_wait"
    /\ pstate[ProducerOrder[cursor]] = "running"
    /\ cancelError' = TRUE
    /\ pc' = "crashed"
    /\ UNCHANGED <<disk, outfile, cur, prev, methods_list, cursor, processes, files,
                   pstate, pipe, logged, finished, sigsent, stopping, stopped, stops,
                   scraperVars>>

\* print "[name] Stopped"; the next item of processes, or on to the merge.
CancelPrint ==
    /\ pc = "cancel_print"
    /\ stopped' = stopped \cup {ProducerOrder[cursor]}
    /\ LET next == NextActive(cursor, processes)
       IN  IF next # 0
           THEN /\ pc' = "cancel_signal"
                /\ cursor' = next
           ELSE /\ pc' = "merge"
                /\ cursor' = 0
    /\ UNCHANGED <<disk, outfile, cur, prev, methods_list, processes, files, pstate,
                   pipe, logged, finished, sigsent, stopping, stops>>
    /\ UNCHANGED <<cancelError, scraperVars>>

\* total = merge_chats(files, merged_path) and the summary.
Merge ==
    /\ pc = "merge"
    /\ LET r == MergeChats(files, disk, outfile)
       IN  /\ cur' = [called |-> TRUE, files |-> files, raised |-> r.raised,
                      output |-> r.output, total |-> r.total]
           /\ prev' = cur
           /\ outfile' = r.output
           /\ pc' = IF r.raised THEN "crashed" ELSE "done"
    /\ UNCHANGED <<disk, methods_list, cursor, processes, files, pstate, pipe,
                   logged, finished, sigsent, stopping, stopped, stops>>
    /\ UNCHANGED <<cancelError, scraperVars>>

\* A running producer prints a progress line.
ProducerEmit(name) ==
    /\ ~ Terminated
    /\ pstate[name] = "running"
    /\ pipe["innertube"] + pipe["chat_downloader"] + pipe["yt-dlp"]
         + logged["innertube"] + logged["chat_downloader"] + logged["yt-dlp"] < MaxEmit
    /\ pipe' = [pipe EXCEPT ![name] = @ + 1]
    /\ UNCHANGED <<disk, outfile, cur, prev, methods_list, pc, cursor, processes,
                   files, pstate, logged, finished, sigsent, stopping, stopped, stops>>
    /\ UNCHANGED <<cancelError, scraperVars>>

\* The scraper or chat_downloader opens its capture file ('w'), or appends
\* and flushes its next record.  yt-dlp writes <base>.live_chat.json, never
\* the recorded path.
ProducerWrite(name) ==
    /\ ~ Terminated
    /\ pstate[name] = "running"
    /\ name # "yt-dlp"
    /\ LET f == disk[PathOf(name)]
       IN  IF ~ f.exists
           THEN disk' = [disk EXCEPT ![PathOf(name)] = File(<< >>)]
           ELSE /\ Len(disk[PathOf("innertube")].lines)
                     + Len(disk[PathOf("chat_downloader")].lines) < MaxFlush
                /\ disk' = [disk EXCEPT ![PathOf(name)] =
                               File(Append(f.lines, RecordOf(name, Len(f.lines) + 1)))]
    /\ UNCHANGED <<outfile, cur, prev, supervisorVars, scraperVars>>

\* A running producer exits: by itself, or on the SIGINT it was sent.
ProducerExit(name) ==
    /\ ~ Terminated
    /\ pstate[name] = "running"
    /\ pstate' = [pstate EXCEPT ![name] = "exited"]
    /\ UNCHANGED <<disk, outfile, cur, prev, methods_list, pc, cursor, processes,
                   files, pipe, logged, finished, sigsent, stopping, stopped, stops>>
    /\ UNCHANGED <<cancelError, scraperVars>>

SupervisorStep ==
    \/ StartSkip
    \/ StartOk
    \/ StartFail
    \/ Check
    \/ MonitorRead
    \/ MonitorPoll
    \/ MonitorSleep
    \/ CancelSignal
    \/ CancelWaitReturn
    \/ CancelWaitTimeout
    \/ CancelPrint
    \/ Merge

\* An unexpected exception in the cancellation path.
CancelFault ==
    \/ CancelSignalRaises
    \/ CancelWaitRaises
    \/ CancelKillRaises

Next ==
    \/ SupervisorStep
    \/ StopRequest
    \/ CancelFault
    \/ \E name \in Producers : ProducerEmit(name)
    \/ \E name \in Producers : ProducerWrite(name)
    \/ \E name \in Producers : ProducerExit(name)

Spec == Init /\ [][Next]_vars

\* ------------------------------------------------------------------------
\* The response parser alone: any document, parsed once
\* ------------------------------------------------------------------------

\* The single-key continuation entries, one with a value that is not a dict,
\* one with two keys, and an entry that is not a dict.
ContEntries ==
    { ContEntry(<<KV(k, ContData(t))>>) : k \in ContKeys, t \in Tokens \cup {""} }
    \cup { ContEntry(<<KV("timedContinuationData", WrongType)>>),
            ContEntry(<<KV("invalidationContinuationData", ContData("")),
                        KV("timedContinuationData", ContData("t1"))>>),
            WrongType }

\* Renderers: Al and Bob a few hundredths of a second apart, one without
\* author and timestamp, one with an emoji, and two of the wrong shape.
AlHi == Renderer(SimpleText("Al"), UsecString(12340000), <<TextRun("hi")>>)

BobYo == Renderer(SimpleText("Bob"), UsecString(12320000),
                  <<TextRun("yo"), EmojiRun("", "E1"), EmojiRun(":x:", "E2")>>)

Bare == Renderer(Absent, Absent, << >>)

NullAuthor == Renderer(WrongType, UsecString(12340000), <<TextRun("hi")>>)

BadUsec == Renderer(SimpleText("Al"), WrongType, <<TextRun("hi")>>)

\* The actions a response document is drawn from.
Actions ==
    { PlainAction(Item(AlHi, Absent)),
      PlainAction(Item(Absent, BobYo)),
      PlainAction(Absent),
      PlainAction(Item(Bare, Absent)),
      ReplayAction(MsecString(1500), <<Item(AlHi, Absent), Item(AlHi, Absent)>>),
      ReplayAction(Absent, <<Item(BobYo, AlHi)>>),
      PlainAction(Item(NullAuthor, Absent)),
      PlainAction(Item(BadUsec, Absent)),
      PlainAction(WrongType),
      ReplayAction(WrongType, <<Item(AlHi, Absent)>>),
      WrongTypeAction }

\* The sequences over a set of length at most n.
SeqUpTo(S, n) == UNION { [1..k -> S] : k \in 0..n }

\* The chats: any continuations with no action, any actions after one
\* continuation entry, a malformed entry before a message, and continuations
\* and actions missing or of another type.
Chats ==
    { Chat(List(cs), List(<< >>)) : cs \in SeqUpTo(ContEntries, MaxEntries) }
    \cup { Chat(List(<<ContEntry(<<KV("timedContinuationData", ContData("t1"))>>)>>),
                List(as)) : as \in SeqUpTo(Actions, MaxActions) }
    \cup { Chat(List(<<WrongType>>), List(<<PlainAction(Item(AlHi, Absent))>>)),
            Chat(Absent, Absent), Chat(WrongType, Absent), Chat(Absent, WrongType) }

\* The documents: a poll response, an initial page, a poll response over
\* page data, a document with neither, and one whose continuationContents
\* is null.
Docs ==
    { Doc(c, Absent) : c \in Chats }
    \cup { Doc(Absent, c) : c \in Chats }
    \cup { Doc(Chat(List(<<ContEntry(<<KV("timedContinuationData", ContData("t1"))>>)>>),
                     Absent),
                Chat(List(<<ContEntry(<<KV("liveChatReplayContinuationData",
                                           ContData("t2"))>>)>>), Absent)),
            Doc(Absent, Absent),
            Doc(WrongType, Absent),
            Doc(Absent, WrongType) }

\* The supervisor and the merge engine are not running.
SupervisorIdle ==
    /\ methods_list = {}
    /\ pc = "standalone"
    /\ cursor = 0
    /\ processes = {}
    /\ files = << >>
    /\ pstate = [n \in Producers |-> "unstarted"]
    /\ pipe = [n \in Producers |-> 0]
    /\ logged = [n \in Producers |-> 0]
    /\ finished = {}
    /\ sigsent = {}
    /\ stopping = FALSE
    /\ stopped = {}
    /\ stops = 0
    /\ cancelError = FALSE
    /\ disk = [p \in Paths |-> NoFile]
    /\ outfile = NoFile
    /\ cur = NoCall
    /\ prev = NoCall

InitParser ==
    /\ doc \in Docs
    /\ parsed = NotParsed
    /\ SessionIdle
    /\ SupervisorIdle

\* messages, continuation, cont_type = extract_messages_and_continuation(data)
ParseDoc ==
    /\ doc # NoDoc
    /\ s_pc = "idle"
    /\ parsed = NotParsed
    /\ parsed' = Extract(doc)
    /\ UNCHANGED <<disk, outfile, cur, prev, supervisorVars, doc, s_pc, continuation,
                   cont_type, is_replay, seen_timestamps, all_messages, unique_new,
                   output, page, elapsed, duration, sent, failed, interrupted>>
    /\ UNCHANGED <<endpoint, posted>>

NextParser == ParseDoc

SpecParser == InitParser /\ [][NextParser]_vars

\* ------------------------------------------------------------------------
\* The scraper's main: one ingestion session
\* ------------------------------------------------------------------------

\* Mutant of Truthy: the loop goes on without a token.
TruthyAlways(tok) == TRUE

\* "while continuation" and "if not continuation": None and '' are false.
Truthy(tok) == tok # None /\ tok # ""

\* Mutant of DurationReached: the budget is never checked.
DurationReachedNever(d, e) == FALSE

\* if args.duration > 0 and time.time() - start_time > args.duration
DurationReached(d, e) == d > 0 /\ e > d

\* key = (msg['timestamp'], msg['author']['name'])
Key(msg) == <<msg.timestamp, msg.author>>

\* for msg in new_msgs: if key not in seen_timestamps: add it and keep msg.
RECURSIVE Deduplicate(_, _, _)
Deduplicate(msgs, i, acc) ==
    IF i > Len(msgs) THEN acc
    ELSE Deduplicate(msgs, i + 1,
             IF Key(msgs[i]) \in acc.seen THEN acc
             ELSE [seen |-> acc.seen \cup {Key(msgs[i])},
                   unique_new |-> Append(acc.unique_new, msgs[i])])

\* open(output, 'w'): the file is created or truncated, the messages written.
WriteAll(msgs) == File(msgs)

\* Mutant of AppendAll: the file is opened with 'w' and truncated.
AppendAllTruncating(f, msgs) == File(msgs)

\* open(output, 'a'): the messages are appended.
AppendAll(f, msgs) == File((IF f.exists THEN f.lines ELSE << >>) \o msgs)

\* The continuation entries and chats of a session's responses: a live page
\* with a message of Al, a replay page with that message twice, pages with
\* a message of Bob with and without a continuation, and a malformed page.
TimedT1 == ContEntry(<<KV("timedContinuationData", ContData("t1"))>>)

ReplayT2 == ContEntry(<<KV("liveChatReplayContinuationData", ContData("t2"))>>)

SessionChats ==
    { Chat(List(<<TimedT1>>), List(<<PlainAction(Item(AlHi, Absent))>>)),
      Chat(List(<<ReplayT2>>),
           List(<<ReplayAction(MsecString(1500), <<Item(AlHi, Absent), Item(AlHi, Absent)>>)>>)),
      Chat(List(<<ReplayT2>>), List(<<PlainAction(Item(Absent, BobYo))>>)),
      Chat(Absent, List(<<PlainAction(Item(Absent, BobYo))>>)),
      Chat(List(<<TimedT1>>), List(<<WrongTypeAction>>)) }

\* ytInitialData of the live_chat page, and the answers of the poll endpoint.
InitialDocs == { Doc(Absent, c) : c \in SessionChats }

PollDocs == { Doc(c, Absent) : c \in SessionChats }

\* args.duration: no budget, or one second.
Durations == {0, 10}

\* main has ended: after the Done line, or by an uncaught exception.
SessionEnded == s_pc \in {"done", "crashed"}

\* main is inside the try block of the polling loop.
InLoop == s_pc \in {"loop", "request", "write", "pace", "backoff"}

\* main starts; the output path may hold the file of an earlier session.
InitSession ==
    /\ doc = NoDoc
    /\ parsed = NotParsed
    /\ s_pc = "fetch"
    /\ continuation = None
    /\ cont_type = None
    /\ is_replay = FALSE
    /\ seen_timestamps = {}
    /\ all_messages = << >>
    /\ unique_new = << >>
    /\ output \in {NoFile, File(<<MessageOf(BobYo, FALSE, Absent)>>)}
    /\ page = 0
    /\ elapsed = 0
    /\ duration \in Durations
    /\ sent = << >>
    /\ failed = FALSE
    /\ interrupted = FALSE
    /\ endpoint = ""
    /\ posted = << >>
    /\ SupervisorIdle

\* get_initial_data raises (status not 200, no ytInitialData), or the parser
\* raises on the page: nothing catches it.
FetchInitialFails ==
    /\ s_pc = "fetch"
    /\ \/ UNCHANGED <<doc, parsed>>
       \/ \E d \in InitialDocs :
             /\ Extract(d).raised
             /\ doc' = d
             /\ parsed' = Extract(d)
    /\ s_pc' = "crashed"
    /\ UNCHANGED <<disk, outfile, cur, prev, supervisorVars, continuation, cont_type,
                   is_replay, seen_timestamps, all_messages, unique_new, output, page,
                   elapsed, duration, sent, failed, interrupted>>
    /\ UNCHANGED <<endpoint, posted>>

\* data = get_initial_data(...); messages, continuation, cont_type = extract(data);
\* all_messages = list(messages); seen_timestamps = the keys of messages.
FetchInitial ==
    /\ s_pc = "fetch"
    /\ \E d \in InitialDocs :
          LET r == Extract(d)
          IN  /\ ~ r.raised
              /\ doc' = d
              /\ parsed' = r
              /\ continuation' = r.next_cont
              /\ cont_type' = r.cont_type
              /\ all_messages' = r.messages
              /\ seen_timestamps' = {Key(r.messages[i]) : i \in 1..Len(r.messages)}
    /\ s_pc' = "init_write"
    /\ UNCHANGED <<disk, outfile, cur, prev, supervisorVars, is_replay, unique_new,
                   output, page, elapsed, duration, sent, failed, interrupted>>
    /\ UNCHANGED <<endpoint, posted>>

\* The initial messages are written with mode 'w', all of them; then
\* is_replay, the endpoint, page = 0 and start_time.
WriteInitial ==
    /\ s_pc = "init_write"
    /\ output' = WriteAll(all_messages)
    /\ is_replay' = IsReplay(cont_type)
    /\ page' = 0
    /\ elapsed' = 0
    /\ s_pc' = "loop"
    /\ UNCHANGED <<disk, outfile, cur, prev, supervisorVars, doc, parsed, continuation,
                   cont_type, seen_timestamps, all_messages, unique_new, duration, sent,
                   failed, interrupted>>
    /\ endpoint' = EndpointOf(IsReplay(cont_type))
    /\ UNCHANGED posted

\* while continuation: page += 1; the duration check; the payload.
LoopHead ==
    /\ s_pc = "loop"
    /\ IF ~ Truthy(continuation)
       THEN /\ s_pc' = "done"
            /\ UNCHANGED page
       ELSE /\ page' = page + 1
            /\ IF DurationReached(duration, elapsed)
               THEN s_pc' = "done"
               ELSE /\ duration = 0 => Len(sent) < MaxPolls
                    /\ s_pc' = "request"
    /\ UNCHANGED <<disk, outfile, cur, prev, supervisorVars, doc, parsed, continuation,
                   cont_type, is_replay, seen_timestamps, all_messages, unique_new,
                   output, elapsed, duration, sent, failed, interrupted>>
    /\ UNCHANGED <<endpoint, posted>>

\* session.post answers 200 with a document the parser accepts: the token
\* and type key are replaced and the messages deduplicated.
PollOk ==
    /\ s_pc = "request"
    /\ \E d \in PollDocs :
          LET r == Extract(d)
              u == Deduplicate(r.messages, 1, [seen |-> seen_timestamps, unique_new |-> << >>])
          IN  /\ ~ r.raised
              /\ doc' = d
              /\ parsed' = r
              /\ continuation' = r.next_cont
              /\ cont_type' = r.cont_type
              /\ seen_timestamps' = u.seen
              /\ unique_new' = u.unique_new
    /\ sent' = Append(sent, continuation)
    /\ failed' = FALSE
    /\ s_pc' = "write"
    /\ UNCHANGED <<disk, outfile, cur, prev, supervisorVars, is_replay, all_messages,
                   output, page, elapsed, duration, interrupted>>
    /\ posted' = Append(posted, endpoint)
    /\ UNCHANGED endpoint

\* except Exception: session.post raises a transport error or r.json() raises
\* on the body, or the parser raises on the document, before anything was
\* assigned.
PollRaises ==
    /\ s_pc = "request"
    /\ \/ UNCHANGED <<doc, parsed>>
       \/ \E d \in PollDocs :
             /\ Extract(d).raised
             /\ doc' = d
             /\ parsed' = Extract(d)
    /\ sent' = Append(sent, continuation)
    /\ failed' = TRUE
    /\ s_pc' = "backoff"
    /\ UNCHANGED <<disk, outfile, cur, prev, supervisorVars, continuation, cont_type,
                   is_replay, seen_timestamps, all_messages, unique_new, output, page,
                   elapsed, duration, interrupted>>
    /\ posted' = Append(posted, endpoint)
    /\ UNCHANGED endpoint

\* Mutant of PollNon200: break instead of continue.
PollNon200Breaks ==
    /\ s_pc = "request"
    /\ sent' = Append(sent, continuation)
    /\ failed' = TRUE
    /\ s_pc' = "done"
    /\ UNCHANGED <<disk, outfile, cur, prev, supervisorVars, doc, parsed, continuation,
                   cont_type, is_replay, seen_timestamps, all_messages, unique_new,
                   output, page, elapsed, duration, interrupted>>
    /\ posted' = Append(posted, endpoint)
    /\ UNCHANGED endpoint

\* session.post answers with a status other than 200: logged, then the delay.
PollNon200 ==
    /\ s_pc = "request"
    /\ sent' = Append(sent, continuation)
    /\ failed' = TRUE
    /\ s_pc' = "backoff"
    /\ UNCHANGED <<disk, outfile, cur, prev, supervisorVars, doc, parsed, continuation,
                   cont_type, is_replay, seen_timestamps, all_messages, unique_new,
                   output, page, elapsed, duration, interrupted>>
    /\ posted' = Append(posted, endpoint)
    /\ UNCHANGED endpoint

\* session.post raises requests.exceptions.Timeout after timeout=30.
PollTimeout ==
    /\ s_pc = "request"
    /\ sent' = Append(sent, continuation)
    /\ failed' = TRUE
    /\ elapsed' = elapsed + PostTimeout
    /\ s_pc' = "backoff"
    /\ UNCHANGED <<disk, outfile, cur, prev, supervisorVars, doc, parsed, continuation,
                   cont_type, is_replay, seen_timestamps, all_messages, unique_new,
                   output, page, duration, interrupted>>
    /\ posted' = Append(posted, endpoint)
    /\ UNCHANGED endpoint

\* time.sleep(5) after a failed request, then the head of the loop.
Backoff ==
    /\ s_pc = "backoff"
    /\ elapsed' = elapsed + RetryDelay
    /\ s_pc' = "loop"
    /\ UNCHANGED <<disk, outfile, cur, prev, supervisorVars, doc, parsed, continuation,
                   cont_type, is_replay, seen_timestamps, all_messages, unique_new,
                   output, page, duration, sent, failed, interrupted>>
    /\ UNCHANGED <<endpoint, posted>>

\* if unique_new: append them to the output and to all_messages; then
\* "if not continuation: break".
WritePage ==
    /\ s_pc = "write"
    /\ IF unique_new # << >>
       THEN /\ output' = AppendAll(output, unique_new)
            /\ all_messages' = all_messages \o unique_new
       ELSE UNCHANGED <<output, all_messages>>
    /\ s_pc' = IF Truthy(continuation) THEN "pace" ELSE "done"
    /\ UNCHANGED <<disk, outfile, cur, prev, supervisorVars, doc, parsed, continuation,
                   cont_type, is_replay, seen_timestamps, unique_new, page, elapsed,
                   duration, sent, failed, interrupted, endpoint, posted>>
    /\ UNCHANGED <<endpoint, posted>>

\* Mutant of Pace: the mode is detected again from the current type key.
PaceByCurrentType ==
    /\ s_pc = "pace"
    /\ elapsed' = elapsed + (IF IsReplay(cont_type) THEN ReplayPace ELSE LivePace)
    /\ s_pc' = "loop"
    /\ UNCHANGED <<disk, outfile, cur, prev, supervisorVars, doc, parsed, continuation,
                   cont_type, is_replay, seen_timestamps, all_messages, unique_new,
                   output, page, duration, sent, failed, interrupted>>
    /\ UNCHANGED <<endpoint, posted>>

\* time.sleep(0.3) in replay mode, time.sleep(3) in live mode.
Pace ==
    /\ s_pc = "pace"
    /\ elapsed' = elapsed + (IF is_replay THEN ReplayPace ELSE LivePace)
    /\ s_pc' = "loop"
    /\ UNCHANGED <<disk, outfile, cur, prev, supervisorVars, doc, parsed, continuation,
                   cont_type, is_replay, seen_timestamps, all_messages, unique_new,
                   output, page, duration, sent, failed, interrupted>>
    /\ UNCHANGED <<endpoint, posted>>

\* Ctrl+C: KeyboardInterrupt at the statement main is at; inside the try of
\* the loop it is caught ("Stopped by user"), before the loop it is not.
Interrupt ==
    /\ s_pc # "idle"
    /\ ~ SessionEnded
    /\ interrupted' = TRUE
    /\ s_pc' = IF InLoop THEN "done" ELSE "crashed"
    /\ UNCHANGED <<disk, outfile, cur, prev, supervisorVars, doc, parsed, continuation,
                   cont_type, is_replay, seen_timestamps, all_messages, unique_new,
                   output, page, elapsed, duration, sent, failed>>
    /\ UNCHANGED <<endpoint, posted>>

\* The steps of main and of the upstream it waits for.
SessionStep ==
    \/ FetchInitialFails
    \/ FetchInitial
    \/ WriteInitial
    \/ LoopHead
    \/ PollOk
    \/ PollNon200
    \/ PollRaises
    \/ PollTimeout
    \/ Backoff
    \/ WritePage
    \/ Pace

NextSession ==
    \/ SessionStep
    \/ Interrupt

SpecSession == InitSession /\ [][NextSession]_vars

\* main is a sequential program and every request returns or raises within
\* its timeout: main always takes its next step.
SpecSessionLive == SpecSession /\ WF_vars(SessionStep)

\* ------------------------------------------------------------------------
\* Properties of merge_chats (checked under SpecMerge)
\* ------------------------------------------------------------------------

RECURSIVE EncounterOrder(_, _)
\* The lines of the existing files, files in call order, lines top to bottom.
EncounterOrder(paths, i) ==
    IF i > Len(paths) THEN << >>
    ELSE (IF disk[paths[i]].exists THEN disk[paths[i]].lines ELSE << >>)
         \o EncounterOrder(paths, i + 1)

\* A well-formed line: a JSON object whose author, if any, is an object and
\* whose timestamp, if any, is a number.
WellFormed(line) ==
    /\ line.kind = "object"
    /\ line.author.tag \in {"absent", "name"}
    /\ line.timestamp.tag \in {"absent", "num", "nan"}

\* The valid records of the last call, in encounter order.
ValidRecords == SelectSeq(EncounterOrder(cur.files, 1), WellFormed)

\* The last call returned and wrote the output.
Merged == cur.called /\ ~ cur.raised

\* The records the last call wrote.
Out == cur.output.lines

\* The identity keys of a sequence of records.
KeysOf(recs) == {KeyOf(recs[i]) : i \in 1..Len(recs)}

\* How many times a record occurs in a sequence.
Count(recs, x) == Cardinality({i \in 1..Len(recs) : recs[i] = x})

\* The record at position i of recs is the first with its identity key.
FirstWithKey(recs, i) ==
    \A j \in 1..(i - 1) : ~ KeyEq(KeyOf(recs[j]), KeyOf(recs[i]))

C2_SortedByTimestamp ==
    Merged => \A i, j \in 1..Len(Out) :
                 i < j => ~ Lt(TimestampOf(Out[j]), TimestampOf(Out[i]))

\* C3 as stated: two merges of the same files, in whatever order the files
\* are given, write the same sequence of records.
C3_SameSequenceAnyOrder ==
    (cur.called /\ prev.called) => cur.output = prev.output

\* C3 amended: two merges of the same files, in whatever order the files are
\* given, both fail or both write outputs with the same number of records and
\* the same set of identity keys.
C3_SameKeysAnyOrder ==
    (cur.called /\ prev.called) =>
        /\ cur.raised = prev.raised
        /\ Len(cur.output.lines) = Len(prev.output.lines)
        /\ KeysOf(cur.output.lines) = KeysOf(prev.output.lines)

\* C3 witness: the two orders of the files gave different record sequences.
C3_Witness ==
    /\ cur.called /\ prev.called
    /\ ~ cur.raised
    /\ cur.files # prev.files
    /\ cur.output # prev.output

C5_CorruptLineDropsNothingElse ==
    cur.called =>
        \A i \in 1..Len(ValidRecords) :
            \E k \in 1..Len(Out) :
                \/ Out[k] = ValidRecords[i]
                \/ KeyEq(KeyOf(Out[k]), KeyOf(ValidRecords[i]))

\* C6: merge_chats returns without raising and leaves the output file in
\* place, whatever input paths are missing, empty or corrupt.
C6_NeverRaises ==
    cur.called => (~ cur.raised /\ outfile.exists)

\* C7: merging the same files twice, given in the same order, writes the same
\* output both times.
C7_SameFilesSameOutput ==
    (cur.called /\ prev.called /\ cur.files = prev.files) =>
        /\ cur.raised = prev.raised
        /\ cur.output = prev.output
        /\ cur.total = prev.total

\* C7 witness: a second merge of the same files in the same order, over an
\* output of two or more records left by the first.
C7_Witness ==
    /\ cur.called /\ prev.called
    /\ cur.files = prev.files
    /\ ~ cur.raised
    /\ Len(prev.output.lines) >= 2
    /\ outfile = cur.output

\* C25: after a call of merge_chats, in whatever order the paths were given,
\* the identity keys of the records in the output file are exactly the
\* identity keys of the valid records of the existing input files, and every
\* record in the output file is a valid record of some input file.
C25_NoKeyLostNoRecordInvented ==
    cur.called =>
        /\ KeysOf(outfile.lines) = KeysOf(ValidRecords)
        /\ \A k \in 1..Len(outfile.lines) :
              \E i \in 1..Len(ValidRecords) : ValidRecords[i] = outfile.lines[k]

\* ------------------------------------------------------------------------
\* Properties of the supervisor (checked under Spec)
\* ------------------------------------------------------------------------

\* C8: when every selected producer failed to start, main still merges and
\* ends normally with an empty merged output (runs without a stop request).
C8_ZeroProducersStillMerge ==
    (/\ Terminated
     /\ stops = 0
     /\ methods_list # {}
     /\ \A n \in methods_list : pstate[n] = "failed")
    => (pc = "done" /\ cur.called /\ outfile = File(<< >>))

\* C9: a run of main in which every started producer has stopped ends with
\* merge_chats called exactly once, over the recorded paths (runs without a
\* stop request).
C9_MergeOnceWhenAllStopped ==
    (Terminated /\ stops = 0) =>
        /\ \A n \in Producers : pstate[n] # "running"
        /\ cur.called
        /\ ~ prev.called
        /\ cur.files = files

AbortedWhileCancelling ==
    /\ stopping
    /\ pc = "crashed"
    /\ \E n \in processes : n \notin stopped

\* C15: however many stop requests follow the first, and unless send_signal,
\* wait or kill raise something unexpected, main never aborts inside the
\* cancellation path; once the path is through every producer of the active
\* set was sent SIGINT and none is running, and the merge that follows is
\* over the recorded paths.
C15_SecondStopIsNoOp ==
    (stopping /\ ~ cancelError) =>
        /\ ~ AbortedWhileCancelling
        /\ \A n \in Producers : pstate[n] = "killed" => n \in sigsent
        /\ pc \in {"merge", "done"} =>
              /\ \A n \in processes : n \in sigsent /\ n \in stopped
              /\ \A n \in Producers : pstate[n] # "running"
        /\ pc = "done" => (cur.called /\ cur.files = files)

\* The other producers of the active set that have a line waiting in their
\* pipe or have exited.
Observable ==
    {n \in processes : n # ProducerOrder[cursor]
                         /\ (pipe[n] > 0 \/ pstate[n] # "running")}

\* C16: in the monitoring loop main is never held up while another producer
\* of the active set has a line waiting or has exited.
C16_SilentProducerDoesNotBlock ==
    (pc = "mon_read" /\ Observable # {}) => ENABLED SupervisorStep

\* C17: when a run without a stop request has ended, every line a producer
\* wrote to its pipe has been printed to the combined log.
C17_EveryLineLogged ==
    (pc = "done" /\ stops = 0) => \A n \in Producers : pipe[n] = 0

\* C18: after an unexpected exception in the cancellation path (and a single
\* stop request) main does not abort: it goes on through the active set and
\* ends with the merge.
C18_CancelErrorStillMerges ==
    (cancelError /\ stops = 1) =>
        /\ pc # "crashed"
        /\ pc \in {"merge", "done"} =>
              \A n \in processes : n \in sigsent /\ n \in stopped
        /\ pc = "done" => cur.called

\* C23: in the monitoring loop a producer leaves the active set only when
\* main polls it and finds it exited, and its exit status is logged with
\* that; every poll of an exited producer removes it; while no stop request
\* came, no producer is ever signalled or killed and main never aborts; and
\* main stays in the monitoring loop as long as the active set is non-empty,
\* going on to the merge only once it is empty.
C23_VoluntaryExitOnlyRemovesThatProducer ==
    /\ []((stops = 0) =>
            /\ sigsent = {}
            /\ \A n \in Producers : pstate[n] # "killed"
            /\ finished # {} => pc \notin {"exit1", "crashed"}
            /\ pc \in {"merge", "done"} => processes = {}
            /\ \A n \in finished : n \notin processes /\ pstate[n] = "exited")
    /\ [][ Monitoring =>
             /\ (processes' # processes) =>
                   /\ pc = "mon_poll"
                   /\ pstate[ProducerOrder[cursor]] = "exited"
                   /\ processes' = processes \ {ProducerOrder[cursor]}
                   /\ finished' = finished \cup {ProducerOrder[cursor]}
             /\ (pc = "mon_poll" /\ pc' # pc /\ stops' = stops
                  /\ pstate[ProducerOrder[cursor]] = "exited") =>
                   /\ ProducerOrder[cursor] \notin processes'
                   /\ ProducerOrder[cursor] \in finished'
             /\ (stops' = stops /\ processes' # {}) => Monitoring'
         ]_vars

\* C23 witness: one producer has exited and was removed with its exit status
\* logged; another is still running, unsignalled, and main is monitoring it.
C23_Witness ==
    /\ stops = 0
    /\ Monitoring
    /\ finished # {}
    /\ \E k \in processes : pstate[k] = "running" /\ logged[k] >= 1
    /\ sigsent = {}

\* The recorded paths without the path of producer n.
FilesWithout(n) == SelectSeq(files, LAMBDA q : q # PathOf(n))

\* C24: a selected producer whose start failed is never in the active set;
\* every selected producer is attempted and those that started are monitored
\* until they exit; the failed producer's path is recorded, names no file
\* and adds nothing to the merge; and the run (without a stop request) ends
\* with merge_chats called over the recorded paths, the failed one included.
C24_FailedStartIsIsolated ==
    /\ \A n \in Producers : pstate[n] = "failed" =>
           /\ n \in methods_list
           /\ n \notin processes
           /\ \E i \in 1..Len(files) : files[i] = PathOf(n)
           /\ ~ disk[PathOf(n)].exists
           /\ ReadFile(FreshStore, disk[PathOf(n)]) = FreshStore
    /\ (pc # "start" /\ stops = 0) =>
           \A k \in methods_list : pstate[k] # "unstarted"
    /\ (Monitoring /\ stops = 0) =>
           \A k \in methods_list : pstate[k] = "running" => k \in processes
    /\ (Terminated /\ stops = 0) =>
           \A n \in Producers : pstate[n] = "failed" =>
               /\ cur.called
               /\ cur.files = files
               /\ \E i \in 1..Len(cur.files) : cur.files[i] = PathOf(n)
               /\ cur.output = MergeChats(FilesWithout(n), disk, NoFile).output

\* ------------------------------------------------------------------------
\* Properties of the response parser (checked under SpecParser)
\* ------------------------------------------------------------------------

\* The chat the parser reads from the document.
ChatOf(data) ==
    IF data.continuationContents.tag # "absent"
    THEN data.continuationContents ELSE data.contents

\* The continuation entries of the document.
EntriesOf(data) ==
    IF ChatOf(data).tag = "dict" THEN ItemsOf(ChatOf(data).continuations) ELSE << >>

\* The entry at position i is a dict that yields a non-empty token.
YieldsToken(data, i) ==
    /\ EntriesOf(data)[i].tag = "dict"
    /\ ScanKeys(EntriesOf(data)[i].items, 1).found

\* C11: when the parser returns, the token and type key are those of the
\* first continuation entry that yields a non-empty token, and the mode
\* derived from the type key is replay iff that key contains "replay"; with
\* no such entry the token is None.
C11_FirstEntryWins ==
    parsed.returned =>
        LET yielding == {i \in 1..Len(EntriesOf(doc)) : YieldsToken(doc, i)}
        IN  IF yielding = {}
            THEN parsed.next_cont = None
            ELSE LET first == CHOOSE i \in yielding : \A j \in yielding : i <= j
                     r == ScanKeys(EntriesOf(doc)[first].items, 1)
                 IN  /\ parsed.next_cont = r.tok
                     /\ parsed.cont_type = r.key
                     /\ IsReplay(parsed.cont_type) <=> ContainsReplay(r.key)

\* The well-formed actions of the document: dicts whose items and renderers
\* hold values of the expected types.
WellFormedAction(a) ==
    /\ a.tag = "dict"
    /\ a.offset.tag # "wrongtype"
    /\ \A i \in 1..Len(a.subs) :
          /\ a.subs[i].tag # "wrongtype"
          /\ a.subs[i].tag = "dict" =>
                \A r \in {a.subs[i].text, a.subs[i].paid} :
                    /\ r.tag # "wrongtype"
                    /\ r.tag = "dict" => ~ RendererRaises(r)

\* C19: the parser never raises: a wrongly-typed substructure is treated as
\* absent, and what it returns holds the messages of every well-formed action
\* of the document.
C19_NeverRaises ==
    parsed # NotParsed =>
        /\ ~ parsed.raised
        /\ parsed.returned
        /\ ChatOf(doc).tag = "dict" =>
              LET actions == SelectSeq(ItemsOf(ChatOf(doc).actions), WellFormedAction)
                  expected == ActionMessages(actions, 1, NotParsed).messages
              IN  \A i \in 1..Len(expected) :
                      \E k \in 1..Len(parsed.messages) : parsed.messages[k] = expected[i]

\* ------------------------------------------------------------------------
\* Properties of the scraper's main (checked under SpecSession and
\* SpecSessionLive)
\* ------------------------------------------------------------------------

\* The initial page was parsed, it carried no continuation token, and no
\* Ctrl+C came.
NoInitialToken ==
    /\ s_pc \notin {"idle", "fetch"}
    /\ parsed.returned
    /\ sent = << >>
    /\ continuation = None
    /\ ~ interrupted

\* C12: when the initial page carries no continuation token, main never
\* gets to a poll request, its output file holds exactly the messages of the
\* initial page once they are written, and main ends.
C12_NoTokenNoPoll ==
    /\ [](NoInitialToken =>
            /\ s_pc \in {"init_write", "loop", "done"}
            /\ s_pc \in {"loop", "done"} => output = File(parsed.messages))
    /\ (NoInitialToken ~> (s_pc = "done" \/ interrupted))

\* C12 witness: a session over an initial page with a message and no
\* continuation has ended without a request.
C12_Witness ==
    /\ NoInitialToken
    /\ s_pc = "done"
    /\ Len(parsed.messages) >= 1
    /\ output = File(parsed.messages)

\* C13: once the session has written its output file, no two records of it
\* share the identity key (timestamp, author name).
C13_NoDuplicateKeysInOutput ==
    (InLoop \/ s_pc = "done") =>
        \A i, j \in 1..Len(output.lines) :
            i < j => Key(output.lines[i]) # Key(output.lines[j])

\* C14: a poll request that fails (status other than 200, timeout, transport
\* error) leaves the token, the seen keys and the output file as they were
\* and leads to the delay; after the delay main is back at the head of the
\* loop, which it leaves only for the next request, on the duration budget
\* or on Ctrl+C; and the request after a failed one carries the token of the
\* failed one.
C14_FailureKeepsState ==
    [][ /\ (sent' # sent /\ failed') =>
              /\ continuation' = continuation
              /\ seen_timestamps' = seen_timestamps
              /\ output' = output
              /\ s_pc' = "backoff"
        /\ (failed /\ s_pc = "backoff") => (s_pc' = "loop" \/ interrupted')
        /\ (failed /\ s_pc = "loop") =>
              \/ s_pc' = "request"
              \/ interrupted'
              \/ duration > 0 /\ elapsed > duration
        /\ (failed /\ sent' # sent) => sent'[Len(sent')] = sent[Len(sent)]
      ]_vars

\* C14 witness: after messages were written a request failed, the delay has
\* passed, and main is about to send the next request.
C14_Witness ==
    /\ failed
    /\ s_pc = "request"
    /\ Len(sent) >= 2
    /\ Len(output.lines) >= 1
    /\ continuation = sent[Len(sent)]

\* C20: with a duration budget no poll request is sent once the elapsed time
\* exceeds it, and once in the polling loop main ends whatever the upstream
\* answers; without a budget main leaves the loop only with a null token or
\* on Ctrl+C.
C20_DurationBudget ==
    /\ [][ /\ (sent' # sent) => ~ (duration > 0 /\ elapsed > duration)
           /\ (duration = 0 /\ InLoop /\ SessionEnded') =>
                 (continuation' = None \/ interrupted')
         ]_vars
    /\ ((duration > 0 /\ InLoop) ~> SessionEnded)

\* C20 witness: a session with a budget whose every request failed has
\* ended on the budget, its token still non-null.
C20_Witness ==
    /\ duration > 0
    /\ s_pc = "done"
    /\ ~ interrupted
    /\ continuation # None
    /\ failed
    /\ Len(sent) >= 1
    /\ elapsed > duration

\* C21: the mode is the one of the initial response (replay iff its type key
\* contains "replay"), with the endpoint that goes with it; in the polling
\* loop neither ever changes, every poll request goes to that endpoint and
\* every pacing sleep has the length of that mode, whatever type keys the
\* poll responses carry.
C21_ModeFixedFromInitial ==
    /\ []((InLoop /\ sent = << >>) =>
            /\ is_replay <=> (parsed.cont_type = "liveChatReplayContinuationData")
            /\ endpoint = IF is_replay THEN "live_chat/get_live_chat_replay"
                                      ELSE "live_chat/get_live_chat")
    /\ [][ InLoop =>
             /\ is_replay' = is_replay
             /\ endpoint' = endpoint
             /\ (posted' # posted) => posted'[Len(posted')] = endpoint
             /\ (s_pc = "pace" /\ s_pc' = "loop") =>
                   elapsed' = elapsed + (IF is_replay THEN ReplayPace ELSE LivePace)
         ]_vars

\* C21 witness: a session that began in live mode got a response with a
\* replay type key, slept the live interval and polled the live endpoint
\* again.
C21_Witness ==
    /\ InLoop
    /\ ~ is_replay
    /\ cont_type = "liveChatReplayContinuationData"
    /\ Len(posted) >= 2
    /\ posted[Len(posted)] = "live_chat/get_live_chat"
    /\ elapsed >= LivePace

\* The identity keys of a sequence of messages.
KeysOfMessages(msgs) == {Key(msgs[i]) : i \in 1..Len(msgs)}

====
